---- MODULE Spec2Model ----
(***************************************************************************)
(* A model of pynbody_velmaps: the VelocityMap pixelisation-and-masking    *)
(* pipeline (generate.py), the coordinate helper (position_angles.py),     *)
(* the particle loader (load.py) and the command-line script               *)
(* (scripts/plot_manga_velmaps.py).                                        *)
(*                                                                         *)
(* Python floats are modelled as exact rationals <<n, d>> with d > 0; the  *)
(* Python value None is the pair <<0, 0>>.                                 *)
(***************************************************************************)
EXTENDS Integers, Sequences, FiniteSets, TLC

VARIABLES
    args,   \* the arguments of VelocityMap(...): halo, cosmo(z), widths, radii
    self,   \* the fields of the VelocityMap object under construction / built
    pc,     \* position of the constructor: "new", "psf", "built", "error"
    call,   \* the last method call made on the built object and what it returned
    run     \* the state of one run of the command-line script

vars == <<args, self, pc, call, run>>

----------------------------------------------------------------------------
(* Bounds of the model *)

MaxWidth == 4      \* image_width_kpc ranges over 1..MaxWidth
MaxAperture == 4   \* aperture_kpc ranges over the half-integers 0..MaxAperture/2
MaxCoord == 2      \* particle coordinates range over -MaxCoord..MaxCoord (y over 0..MaxCoord)
MaxVal == 1        \* pixel values of the projected image range over 0..MaxVal
MaxK == 2          \* integer multiples of the pixel scale, 1..MaxK

----------------------------------------------------------------------------
(* Exact rational arithmetic standing for Python float arithmetic *)

Abs(x) == IF x < 0 THEN -x ELSE x

RECURSIVE Gcd(_, _)
Gcd(a, b) == IF b = 0 THEN a ELSE Gcd(b, a % b)

R(n, d) ==
    LET g == Gcd(Abs(n), Abs(d))
        s == IF d < 0 THEN -1 ELSE 1
    IN  IF g = 0 THEN <<0, 1>> ELSE <<s * (n \div g), s * (d \div g)>>

None == <<0, 0>>
IsNone(x) == x[2] = 0

RMul(a, b) == R(a[1] * b[1], a[2] * b[2])
RDiv(a, b) == R(a[1] * b[2], a[2] * b[1])
RAdd(a, b) == R(a[1] * b[2] + b[1] * a[2], a[2] * b[2])
RLe(a, b) == a[1] * b[2] <= b[1] * a[2]
RLt(a, b) == a[1] * b[2] < b[1] * a[2]

\* Python's int(x) of a float: truncation towards zero.
TruncInt(a) ==
    IF a[1] >= 0 THEN a[1] \div a[2] ELSE -((-a[1]) \div a[2])

----------------------------------------------------------------------------
(* generate.py: class Aperture *)

\* Aperture.__init__: the centre must be a length-2 array, else ValueError.
Aperture_init(radius, cen) ==
    IF Len(cen) # 2
    THEN [exc |-> "ValueError", radius |-> None, cen |-> <<>>]
    ELSE [exc |-> "none", radius |-> radius, cen |-> cen]

\* The test of Aperture.__call__ for one particle p = <<x, y, z>>:
\* distance = ((pos[:2] - cen) ** 2).sum() ; distance < radius ** 2
Aperture_selects(f, p) ==
    LET dx == p[1] - f.cen[1]
        dy == p[2] - f.cen[2]
    IN  RLt(R(dx * dx + dy * dy, 1), RMul(f.radius, f.radius))

\* Aperture.__call__ on a snapshot (a set of particles). radius None makes
\* None ** 2 raise TypeError.
Aperture_call(f, sim) ==
    IF IsNone(f.radius)
    THEN [exc |-> "TypeError", sel |-> {}]
    ELSE [exc |-> "none", sel |-> {p \in sim : Aperture_selects(f, p)}]

----------------------------------------------------------------------------
(* generate.py: class VelocityMap, the pure parts *)

\* calc_npixels rounding to the nearest integer instead of truncating
calc_npixels_round(kpc_per_arcsec, image_width_kpc, pixel_scale_arcsec) ==
    LET image_width_arcsec == RDiv(image_width_kpc, kpc_per_arcsec)
    IN  TruncInt(RAdd(RDiv(image_width_arcsec, pixel_scale_arcsec), R(1, 2)))

\* VelocityMap.calc_npixels, reading self.kpc_per_arcsec.
calc_npixels(kpc_per_arcsec, image_width_kpc, pixel_scale_arcsec) ==
    LET image_width_arcsec == RDiv(image_width_kpc, kpc_per_arcsec)
    IN  TruncInt(RDiv(image_width_arcsec, pixel_scale_arcsec))

\* VelocityMap.restrict_halo
restrict_halo(obj, halo) ==
    Aperture_call(Aperture_init(obj.halo_max_size, <<0, 0>>), halo)

\* center = (int(w / 2), int(h / 2))
mask_center(npixels) == TruncInt(R(npixels, 2))

\* radius = aperture_radius / kpc_per_arcsec / pixel_scale_arcsec
mask_radius(obj) ==
    RDiv(RDiv(obj.aperture_radius, obj.kpc_per_arcsec), obj.pixel_scale_arcsec)

\* np.sqrt(dx ** 2 + dy ** 2) <= radius, for integers dx, dy
dist_le(dx, dy, radius) ==
    /\ RLe(R(0, 1), radius)
    /\ RLe(R(dx * dx + dy * dy, 1), RMul(radius, radius))

\* VelocityMap.mask_aperture: a boolean array, or np.ones (float64) when the
\* aperture radius is None. a[Y][X] is row Y, column X.
mask_aperture(obj) ==
    LET n == obj.npixels
        c == mask_center(n)
    IN  IF ~IsNone(obj.aperture_radius)
        THEN [dtype |-> "bool",
              a |-> [Y \in 0..(n - 1) |-> [X \in 0..(n - 1) |->
                        dist_le(X - c, Y - c, mask_radius(obj))]]]
        ELSE [dtype |-> "float64",
              a |-> [Y \in 0..(n - 1) |-> [X \in 0..(n - 1) |-> TRUE]]]

----------------------------------------------------------------------------
(* Images. An array is [kind, a, den]: pixel (row Y, column X) holds the   *)
(* value a[Y][X] / den; kind is the Python type of the array object.       *)

RECURSIVE SumTo(_, _)
\* f[0] + ... + f[k], 0 for k < 0
SumTo(f, k) == IF k < 0 THEN 0 ELSE f[k] + SumTo(f, k - 1)

\* The sum of a[Y][X] over the pixels with keep[Y][X]
SumWhere(a, n, keep) ==
    SumTo([Y \in 0..(n - 1) |->
             SumTo([X \in 0..(n - 1) |-> IF keep[Y][X] THEN a[Y][X] ELSE 0],
                   n - 1)],
          n - 1)

OneHot(n, r, c, v) ==
    [Y \in 0..(n - 1) |-> [X \in 0..(n - 1) |->
        IF Y = r /\ X = c THEN v ELSE 0]]

\* The images pynbody.plot.sph.image may hand back at resolution n: the
\* renderer is outside the repository, so its result is an input of the
\* model, here every image with one non-zero pixel.
ImageSet(n) ==
    {OneHot(n, r, c, v) : r \in 0..(n - 1), c \in 0..(n - 1), v \in 1..MaxVal}

----------------------------------------------------------------------------
(* scipy.ndimage.gaussian_filter(input, sigma), defaults mode="reflect",   *)
(* truncate=4.0, in fixed point.                                           *)

gaussian_fwhm_to_sigma == R(4247, 10000)   \* astropy: 0.42466...
ExpScale == 10000
WeightScale == 100

\* round(ExpScale * exp(-t)), t = t1000 / 1000 >= 0: the degree-4 Taylor
\* polynomial of exp(-t/16), squared four times.
ExpNeg(t1000) ==
    IF t1000 > 16000 THEN 0
    ELSE LET s  == (t1000 * 10) \div 16
             s2 == (s * s) \div ExpScale
             s3 == (s2 * s) \div ExpScale
             s4 == (s3 * s) \div ExpScale
             e0 == ExpScale - s + (s2 \div 2) - (s3 \div 6) + (s4 \div 24)
             e1 == (e0 * e0) \div ExpScale
             e2 == (e1 * e1) \div ExpScale
             e3 == (e2 * e2) \div ExpScale
         IN  (e3 * e3) \div ExpScale

\* The kernel radius, lw = int(truncate * sd + 0.5)
kernel_radius(sigma) == TruncInt(RAdd(RMul(R(4, 1), sigma), R(1, 2)))

\* The unnormalised weight exp(-0.5 / sigma**2 * x**2), scaled by WeightScale;
\* scipy divides by the weights' sum, which GaussSum carries as denominator.
kernel_weight(sigma, x) ==
    IF x = 0 THEN WeightScale
    ELSE LET sm == TruncInt(RMul(R(1000, 1), sigma))
             d  == (2 * sm * sm) \div 1000
         IN  IF d = 0 THEN 0
             ELSE (ExpNeg((x * x * 1000000) \div d) + 50) \div 100

GaussSum(sigma) ==
    LET lw == kernel_radius(sigma)
    IN  SumTo([k \in 0..(2 * lw) |-> kernel_weight(sigma, k - lw)], 2 * lw)

\* mode="reflect": (d c b a | a b c d | d c b a)
reflect_index(m, n) ==
    LET p == m % (2 * n)
    IN  IF p < n THEN p ELSE 2 * n - 1 - p

\* The kernel of gaussian_filter1d as a table, index k standing for x = k - lw
kernel(sigma) ==
    LET lw == kernel_radius(sigma)
    IN  [k \in 0..(2 * lw) |-> kernel_weight(sigma, k - lw)]

\* correlate1d of one line f[0..n-1] with the weights w of radius lw
correlate_line(f, n, w, lw) ==
    [i \in 0..(n - 1) |->
        SumTo([k \in 0..(2 * lw) |-> w[k] * f[reflect_index(i + k - lw, n)]],
              2 * lw)]

\* gaussian_filter of an n x n array of numerators: axis 0, then axis 1.
\* The result's denominator grows by GaussSum(sigma) ** 2.
gaussian_filter(a, n, sigma) ==
    LET lw  == kernel_radius(sigma)
        w   == kernel(sigma)
        ax0 == [X \in 0..(n - 1) |->
                   correlate_line([Y \in 0..(n - 1) |-> a[Y][X]], n, w, lw)]
        b   == [Y \in 0..(n - 1) |-> [X \in 0..(n - 1) |-> ax0[X][Y]]]
    IN  [Y \in 0..(n - 1) |-> correlate_line(b[Y], n, w, lw)]

\* convolve_fwhm zeroing the blurred image outside the aperture mask
convolve_fwhm_masked(obj) ==
    LET sigma_pixels == RDiv(RMul(obj.fwhm_arcsec, gaussian_fwhm_to_sigma),
                             obj.pixel_scale_arcsec)
        S == GaussSum(sigma_pixels)
        b == gaussian_filter(obj.data.a, obj.npixels, sigma_pixels)
    IN  [kind |-> "ndarray",
         a |-> [Y \in 0..(obj.npixels - 1) |-> [X \in 0..(obj.npixels - 1) |->
                  IF obj.mask.a[Y][X] THEN b[Y][X] ELSE 0]],
         den |-> obj.data.den * S * S]

\* VelocityMap.convolve_fwhm: a new ndarray, blurred from self.data
convolve_fwhm(obj) ==
    LET sigma_arcsec == RMul(obj.fwhm_arcsec, gaussian_fwhm_to_sigma)
        sigma_pixels == RDiv(sigma_arcsec, obj.pixel_scale_arcsec)
        S == GaussSum(sigma_pixels)
    IN  [kind |-> "ndarray",
         a |-> gaussian_filter(obj.data.a, obj.npixels, sigma_pixels),
         den |-> obj.data.den * S * S]

\* VelocityMap.create_masked_image: np.ma.masked_array(im[::-1, :], mask=mask).
\* In a numpy masked array an entry whose mask is true is hidden (invalid).
create_masked_image(n, im, mask) ==
    [kind |-> "MaskedArray",
     a |-> [Y \in 0..(n - 1) |-> im.a[n - 1 - Y]],
     den |-> im.den,
     mask |-> mask.a]

\* Whether the masked array shows (does not hide) pixel (Y, X)
shown(m, Y, X) == ~m.mask[Y][X]

----------------------------------------------------------------------------
(* position_angles.py *)

\* np.linspace(start, stop, num)[j]; num = 1 gives [start]
linspace(start, stop, num, j) ==
    IF num = 1 THEN start
    ELSE RAdd(start, RMul(R(j, 1), RDiv(RAdd(stop, RMul(R(-1, 1), start)),
                                        R(num - 1, 1))))

\* infer_coordinates: x, y = np.meshgrid(x, y); return x, y[::-1, :]
infer_coordinates(vel_map) ==
    LET n  == vel_map.npixels
        lo == RDiv(RMul(R(-1, 1), vel_map.image_width_kpc), R(2, 1))
        hi == RDiv(vel_map.image_width_kpc, R(2, 1))
        mx == [i \in 0..(n - 1) |-> [j \in 0..(n - 1) |-> linspace(lo, hi, n, j)]]
        my == [i \in 0..(n - 1) |-> [j \in 0..(n - 1) |-> linspace(lo, hi, n, i)]]
    IN  [x |-> mx, y |-> [i \in 0..(n - 1) |-> my[n - 1 - i]]]

----------------------------------------------------------------------------
(* generate.py: VelocityMap.__init__ *)

NoObject == [exc |-> "none"]

\* Lines 87-105: the fields up to data = np.asarray(raw). im is what
\* generate_los_map obtains from the renderer for the restricted particles.
\* The result carries exc = the exception that ends the constructor, if any.
init_fields(a, im) ==
    LET npixels == calc_npixels(a.kpc_per_arcsec, a.image_width_kpc,
                                a.pixel_scale_arcsec)
        o1 == [exc |-> "none",
               pixel_scale_arcsec |-> a.pixel_scale_arcsec,
               image_width_kpc |-> a.image_width_kpc,
               fwhm_arcsec |-> a.fwhm_arcsec,
               aperture_radius |-> a.aperture_kpc,
               halo_max_size |-> IF IsNone(a.halo_max_size)
                                 THEN a.aperture_kpc ELSE a.halo_max_size,
               kpc_per_arcsec |-> a.kpc_per_arcsec,
               npixels |-> npixels]
    IN  IF npixels = 0
        THEN [exc |-> "ZeroDivisionError"]      \* image_width_kpc / npixels
        ELSE
        LET o2 == o1 @@ [kpc_per_pixel |-> RDiv(a.image_width_kpc, R(npixels, 1))]
            sel == restrict_halo(o2, a.halo)
        IN  IF sel.exc # "none"
            THEN [exc |-> sel.exc]
            ELSE
            LET o3  == o2 @@ [particles |-> sel.sel]
                o4  == o3 @@ [mask |-> mask_aperture(o3)]
                raw == [kind |-> "SimArray", a |-> im, den |-> 1]
            IN  o4 @@ [raw |-> raw,
                       data |-> [kind |-> "ndarray", a |-> im, den |-> 1]]

\* The constructor convolving a second time, the data already convolved
init_psf_twice(obj) ==
    IF ~IsNone(obj.fwhm_arcsec)
    THEN LET once == [obj EXCEPT !.data = convolve_fwhm(obj)]
         IN  [once EXCEPT !.data = convolve_fwhm(once)]
    ELSE obj

\* Lines 107-108: the optional PSF convolution
init_psf(obj) ==
    IF ~IsNone(obj.fwhm_arcsec)
    THEN [obj EXCEPT !.data = convolve_fwhm(obj)]
    ELSE obj

\* The resolution the renderer is asked for by a constructor call
Resolution(a) ==
    calc_npixels(a.kpc_per_arcsec, a.image_width_kpc, a.pixel_scale_arcsec)

\* The images the renderer may return to a constructor call (one dummy
\* value when the constructor never reaches generate_los_map)
RenderedImages(a) ==
    IF Resolution(a) = 0 THEN {<<>>} ELSE ImageSet(Resolution(a))

----------------------------------------------------------------------------
(* The inputs of the model *)

Halves(k) == {R(h, 2) : h \in 0..k}

Widths == {R(w, 1) : w \in 1..MaxWidth}
Apertures == {None} \cup Halves(MaxAperture)
PixelScales == {R(1, 1), R(3, 2), R(2, 1)}
KpcPerArcsec == {R(1, 1), R(2, 1)}       \* cosmo.kpc_proper_per_arcmin(z) / 60
Fwhms == {None, R(1, 1)}
HaloSizes == {None, R(2, 1)}

\* One particle on every lattice point of the upper half of the x-y plane,
\* at two depths z
Halo == {<<x, y, z>> : x \in (-MaxCoord)..MaxCoord, y \in 0..MaxCoord,
                       z \in {0, MaxCoord}}

Centres == {<<0, 0>>, <<1, 0>>, <<0>>, <<0, 0, 0>>}

ArgSet ==
    [halo : {Halo}, kpc_per_arcsec : KpcPerArcsec, image_width_kpc : Widths,
     aperture_kpc : Apertures, pixel_scale_arcsec : PixelScales,
     fwhm_arcsec : Fwhms, halo_max_size : HaloSizes]

NoCall == [name |-> "none"]
NoRun == [pc |-> "idle"]

----------------------------------------------------------------------------
(* The life of one VelocityMap object *)

Init ==
    /\ args \in ArgSet
    /\ self = NoObject
    /\ pc = "new"
    /\ call = NoCall
    /\ run = NoRun

\* VelocityMap.__init__, lines 87-105
New_Fields ==
    /\ pc = "new"
    /\ \E im \in RenderedImages(args) :
         LET o == init_fields(args, im)
         IN  /\ self' = o
             /\ pc' = IF o.exc = "none" THEN "psf" ELSE "error"
    /\ UNCHANGED <<args, call, run>>

\* VelocityMap.__init__, lines 107-108
New_PSF ==
    /\ pc = "psf"
    /\ self' = init_psf(self)
    /\ pc' = "built"
    /\ UNCHANGED <<args, call, run>>

(* Method calls on the built object, one at a time: call holds the call    *)
(* in progress and its result until Return.                                *)

Idle == pc = "built" /\ call = NoCall

Call_calc_npixels ==
    /\ Idle
    /\ \E k \in 1..MaxK :
         LET p == RMul(R(k, 1), self.pixel_scale_arcsec)
         IN  call' = [name |-> "calc_npixels", k |-> k,
                      ret |-> calc_npixels(self.kpc_per_arcsec,
                                           self.image_width_kpc, p)]
    /\ UNCHANGED <<args, self, pc, run>>

Call_restrict_halo ==
    /\ Idle
    /\ call' = [name |-> "restrict_halo", ret |-> restrict_halo(self, args.halo).sel]
    /\ UNCHANGED <<args, self, pc, run>>

Call_mask_aperture ==
    /\ Idle
    /\ call' = [name |-> "mask_aperture", ret |-> mask_aperture(self)]
    /\ UNCHANGED <<args, self, pc, run>>

\* The renderer is deterministic: the same particles give the same image.
Call_generate_los_map ==
    /\ Idle
    /\ call' = [name |-> "generate_los_map", ret |-> self.raw]
    /\ UNCHANGED <<args, self, pc, run>>

Call_create_masked_image ==
    /\ Idle
    /\ call' = [name |-> "create_masked_image",
                ret |-> create_masked_image(self.npixels, self.data, self.mask)]
    /\ UNCHANGED <<args, self, pc, run>>

\* fwhm_arcsec None: None * gaussian_fwhm_to_sigma raises TypeError
Call_convolve_fwhm ==
    /\ Idle
    /\ call' = IF IsNone(self.fwhm_arcsec)
               THEN [name |-> "convolve_fwhm", exc |-> "TypeError"]
               ELSE [name |-> "convolve_fwhm", exc |-> "none",
                     ret |-> convolve_fwhm(self)]
    /\ UNCHANGED <<args, self, pc, run>>

Call_infer_coordinates ==
    /\ Idle
    /\ call' = [name |-> "infer_coordinates", ret |-> infer_coordinates(self)]
    /\ UNCHANGED <<args, self, pc, run>>

\* Aperture(radius, cen)(halo) with one of the object's two radii, for any
\* centre a caller may pass
Call_Aperture ==
    /\ Idle
    /\ \E cen \in Centres, radius \in {self.halo_max_size, self.aperture_radius} \ {None} :
         LET f == Aperture_init(radius, cen)
         IN  call' = IF f.exc # "none"
                     THEN [name |-> "Aperture", exc |-> f.exc, cen |-> cen]
                     ELSE [name |-> "Aperture", exc |-> "none", cen |-> cen,
                           filter |-> f, ret |-> Aperture_call(f, args.halo).sel]
    /\ UNCHANGED <<args, self, pc, run>>

Return ==
    /\ pc = "built"
    /\ call # NoCall
    /\ call' = NoCall
    /\ UNCHANGED <<args, self, pc, run>>

Next ==
    \/ New_Fields
    \/ New_PSF
    \/ Call_calc_npixels
    \/ Call_restrict_halo
    \/ Call_mask_aperture
    \/ Call_generate_los_map
    \/ Call_create_masked_image
    \/ Call_convolve_fwhm
    \/ Call_infer_coordinates
    \/ Call_Aperture
    \/ Return

Spec == Init /\ [][Next]_vars

----------------------------------------------------------------------------
(* load.py: load_particles *)

Families == {"star", "gas", "dm", "bh"}

\* The particles of each family of a snapshot; a star with tform < 0 is a
\* black hole in snapshots that keep no "bh" family.
FamilyParticles(f) ==
    CASE f = "star" -> {<<0, 0, 0>>, <<1, 0, 0>>, <<0, 1, 1>>}
      [] f = "gas"  -> {<<0, 0, 0>>, <<-1, 0, 0>>}
      [] f = "dm"   -> {<<1, 1, 1>>}
      [] f = "bh"   -> {<<0, 0, 0>>}
StarsWithNegativeTform == {<<0, 0, 0>>}

\* load_particles(sim): sim is [families, tform], tform telling whether the
\* star particles carry a 'tform' array. Returns the dictionary and what was
\* printed.
load_particles(sim) ==
    LET family_dict == [f \in sim.families |-> FamilyParticles(f)]
    IN  IF "bh" \notin DOMAIN family_dict
        THEN IF sim.tform
             THEN [dict |-> family_dict @@ [f \in {"bh"} |-> StarsWithNegativeTform],
                   printed |-> <<>>]
             ELSE [dict |-> family_dict, printed |-> <<"Cannot find BH">>]
        ELSE [dict |-> family_dict, printed |-> <<>>]

----------------------------------------------------------------------------
(* scripts/plot_manga_velmaps.py: one run of the script, statement by      *)
(* statement, plot_star_map and plot_gas_map inlined.                      *)

Program ==
    <<"parse_args", "subplots",
      "star.load_halo_families", "star.calc_half_mass_radius", "star.bh_xy",
      "star.VelocityMap", "star.plot_map", "star.plot_bh", "star.plot_aperture",
      "star.plot_scalebar",
      "gas.load_halo_families", "gas.calc_half_mass_radius", "gas.bh_xy",
      "gas.VelocityMap", "gas.plot_map", "gas.plot_bh", "gas.plot_aperture",
      "gas.plot_scalebar", "gas.tick_params",
      "star.calc_pa", "gas.calc_pa", "star.plot_pa", "gas.plot_pa",
      "savefig">>

\* plot.plot_scalebar(scalebar_size, ax, **kwargs) takes two positional
\* arguments; the script passes (5, vel_map.kpc_per_pixel, ax).
plot_scalebar_positional == 2
plot_scalebar_passed == 3

\* cosmo.kpc_proper_per_arcmin(z) / 60 for the redshifts of the model
KpcPerArcsecAt(z) == IF z = R(3, 100) THEN R(3, 5) ELSE R(1, 1)

Redshifts == {R(0, 1), R(1, 20)}
HalfMassRadii == {R(1, 5), R(2, 5)}
Outfiles == {"None", "out.png"}
ImageWidths == {R(1, 2), R(1, 1)}

Which(stmt) == IF SubSeq(stmt, 1, 4) = "star" THEN "star" ELSE "gas"

\* The arguments of generate.VelocityMap(...) in plot_star_map / plot_gas_map
MapArgs(r, family) ==
    [halo |-> r.halo_families[family],
     kpc_per_arcsec |-> KpcPerArcsecAt(r.redshift),
     image_width_kpc |-> r.image_width,
     aperture_kpc |-> RMul(R(5, 2), r.half_mass_r),
     pixel_scale_arcsec |-> R(1, 2),
     fwhm_arcsec |-> R(5, 2),
     halo_max_size |-> None]

\* vel_map.data.data * vel_map.data.mask: only a masked array has .mask
HasMask(array) == array.kind = "MaskedArray"

\* The exception statement stmt raises in run state r, "none" if it runs
\* through. im is the image the renderer returns to a VelocityMap call.
Raises(stmt, r, im) ==
    CASE stmt \in {"star.calc_half_mass_radius", "gas.calc_half_mass_radius"} ->
            IF "star" \in DOMAIN r.halo_families THEN "none" ELSE "KeyError"
      [] stmt \in {"star.bh_xy", "gas.bh_xy"} ->
            IF "bh" \in DOMAIN r.halo_families THEN "none" ELSE "KeyError"
      [] stmt = "star.VelocityMap" ->
            init_fields(MapArgs(r, "star"), im).exc
      [] stmt = "gas.VelocityMap" ->
            IF "gas" \in DOMAIN r.halo_families
            THEN init_fields(MapArgs(r, "gas"), im).exc ELSE "KeyError"
      [] stmt \in {"star.plot_map", "gas.plot_map"} ->
            \* gas: the keyword scalebar_size reaches imshow, which rejects it
            IF HasMask(r.maps[Which(stmt)].data) /\ stmt = "star.plot_map"
            THEN "none" ELSE "AttributeError"
      [] stmt \in {"star.plot_scalebar", "gas.plot_scalebar"} ->
            IF plot_scalebar_passed > plot_scalebar_positional
            THEN "TypeError" ELSE "none"
      [] stmt \in {"star.calc_pa", "gas.calc_pa"} ->
            \* calc_pa is handed an array, not a VelocityMap
            "AttributeError"
      [] OTHER -> "none"

\* The run state after stmt ran through
Effect(stmt, r, im) ==
    CASE stmt = "parse_args" ->
            [r EXCEPT !.redshift = IF r.argv.redshift = R(0, 1)
                                   THEN R(3, 100) ELSE r.argv.redshift,
                      !.image_width = r.argv.image_width]
      [] stmt \in {"star.load_halo_families", "gas.load_halo_families"} ->
            LET l == load_particles(r.sim)
            IN  [r EXCEPT !.halo_families = l.dict,
                          !.printed = r.printed \o l.printed]
      [] stmt \in {"star.VelocityMap", "gas.VelocityMap"} ->
            [r EXCEPT !.maps = [f \in {Which(stmt)} |->
                                  init_psf(init_fields(MapArgs(r, Which(stmt)), im))]
                              @@ r.maps]
      [] stmt = "savefig" ->
            [r EXCEPT !.written = (r.argv.outfile # "None")]
      [] OTHER -> r

\* The images the renderer may return at statement stmt
StmtImages(stmt, r) ==
    IF stmt \in {"star.VelocityMap", "gas.VelocityMap"}
       /\ Which(stmt) \in DOMAIN r.halo_families
    THEN RenderedImages(MapArgs(r, Which(stmt)))
    ELSE {<<>>}

InitRun ==
    /\ args = [halo |-> {}]
    /\ self = NoObject
    /\ pc = "none"
    /\ call = NoCall
    /\ \E fams \in SUBSET Families, tform \in BOOLEAN, z \in Redshifts,
          w \in ImageWidths, out \in Outfiles, hmr \in HalfMassRadii :
         run = [pc |-> 1, exc |-> "none", done |-> <<>>,
                sim |-> [families |-> fams, tform |-> tform],
                argv |-> [redshift |-> z, image_width |-> w, outfile |-> out],
                redshift |-> None, image_width |-> None, half_mass_r |-> hmr,
                halo_families |-> <<>>, printed |-> <<>>,
                maps |-> <<>>, written |-> FALSE, at |-> "none"]

Running == run.pc \in 1..Len(Program)

\* The statement at run.pc runs through
Run_Statement ==
    /\ Running
    /\ \E im \in StmtImages(Program[run.pc], run) :
         /\ Raises(Program[run.pc], run, im) = "none"
         /\ run' = [Effect(Program[run.pc], run, im) EXCEPT
                       !.pc = run.pc + 1,
                       !.done = Append(run.done, Program[run.pc])]
    /\ UNCHANGED <<args, self, pc, call>>

\* The statement at run.pc raises: the exception ends the script
Run_Raise ==
    /\ Running
    /\ \E im \in StmtImages(Program[run.pc], run) :
         /\ Raises(Program[run.pc], run, im) # "none"
         /\ run' = [run EXCEPT !.pc = 0,
                               !.exc = Raises(Program[run.pc], run, im),
                               !.at = Program[run.pc]]
    /\ UNCHANGED <<args, self, pc, call>>

NextRun == Run_Statement \/ Run_Raise

SpecRun == InitRun /\ [][NextRun]_vars

RunEnded == run.pc = 0 \/ run.pc = Len(Program) + 1

----------------------------------------------------------------------------
(* Properties *)

Built == pc = "built"
Pixels == 0..(self.npixels - 1)

\* C1: the aperture mask is symmetric under transposition, under the
\* up-down flip and under the left-right flip, for every grid size.
C1_MaskSymmetric ==
    Built =>
        \A i \in Pixels, j \in Pixels :
            /\ self.mask.a[i][j] = self.mask.a[j][i]
            /\ self.mask.a[i][j] = self.mask.a[self.npixels - 1 - i][j]
            /\ self.mask.a[i][j] = self.mask.a[i][self.npixels - 1 - j]

\* A built map with an even grid and a real aperture
C1_EvenGrid ==
    Built /\ self.npixels % 2 = 0 /\ ~IsNone(self.aperture_radius)

\* C2: with an aperture given, a pixel is in the mask exactly when its
\* distance to the centre is at most aperture_kpc / kpc_per_arcsec /
\* pixel_scale_arcsec pixels, and that radius is aperture_kpc / kpc_per_pixel.
C2_RadiusConsistent ==
    (Built /\ ~IsNone(self.aperture_radius)) =>
        LET c == mask_center(self.npixels)
            r == RDiv(RDiv(self.aperture_radius, self.kpc_per_arcsec),
                      self.pixel_scale_arcsec)
            rpix == RDiv(self.aperture_radius, self.kpc_per_pixel)
        IN  /\ \A Y \in Pixels, X \in Pixels :
                  self.mask.a[Y][X] <=> dist_le(X - c, Y - c, r)
            /\ r = rpix
            /\ \A Y \in Pixels, X \in Pixels :
                  self.mask.a[Y][X] <=> dist_le(X - c, Y - c, rpix)

\* A built map whose width is not a whole number of pixels
C2_TruncatedGrid ==
    /\ Built /\ ~IsNone(self.aperture_radius)
    /\ RDiv(RDiv(self.image_width_kpc, self.kpc_per_arcsec),
            self.pixel_scale_arcsec) # R(self.npixels, 1)

\* The integer part of a non-negative rational, by its defining inequality
FloorOf(q) == CHOOSE m \in 0..(q[1] + 1) : RLe(R(m, 1), q) /\ RLt(q, R(m + 1, 1))

\* The pixel count before truncation
ExactPixels(w, p) == RDiv(RDiv(w, self.kpc_per_arcsec), p)

SigmaPixels == RDiv(RMul(self.fwhm_arcsec, gaussian_fwhm_to_sigma),
                    self.pixel_scale_arcsec)

BuiltData ==
    (Built /\ call = NoCall) =>
        IF IsNone(self.fwhm_arcsec)
        THEN self.data.a = self.raw.a /\ self.data.den = self.raw.den
        ELSE /\ self.data.a = gaussian_filter(self.raw.a, self.npixels, SigmaPixels)
             /\ self.data.den = GaussSum(SigmaPixels) * GaussSum(SigmaPixels)

\* Every field but data
Frame(o) == [f \in (DOMAIN o) \ {"data"} |-> o[f]]

\* C4: at the end of the constructor data is the raw projection, or exactly
\* one Gaussian convolution of it; the convolution step changes no other
\* field; and no method call changes any field of the built object.
C4_BuiltOnce ==
    /\ []BuiltData
    /\ [][pc = "psf" => Frame(self') = Frame(self)]_vars
    /\ [][pc = "built" => (self' = self /\ pc' = "built")]_vars

\* A built, convolved map on which a method has been called
C4_ConvolvedThenCalled ==
    /\ Built /\ ~IsNone(self.fwhm_arcsec)
    /\ self.data.a # self.raw.a
    /\ call.name = "convolve_fwhm"

\* C7: the mask field is a boolean array, true exactly within the aperture.
C7_MaskBoolean ==
    Built =>
        /\ self.mask.dtype = "bool"
        /\ DOMAIN self.mask.a = Pixels
        /\ \A Y \in Pixels : DOMAIN self.mask.a[Y] = Pixels

\* C8: create_masked_image reverses the rows, shows exactly the pixels within
\* the aperture; infer_coordinates has x growing with the column from -w/2 to
\* +w/2 and y falling with the row from +w/2 to -w/2.
C8_MirroredOrientation ==
    /\ (Built /\ call.name = "create_masked_image"
              /\ ~IsNone(self.aperture_radius)) =>
          /\ \A Y \in Pixels : call.ret.a[Y] = self.data.a[self.npixels - 1 - Y]
          /\ \A Y \in Pixels, X \in Pixels :
                shown(call.ret, Y, X) <=> self.mask.a[Y][X]
    /\ (Built /\ call.name = "infer_coordinates") =>
          LET n  == self.npixels
              hi == RDiv(self.image_width_kpc, R(2, 1))
              lo == RMul(R(-1, 1), hi)
          IN  \A i \in Pixels :
                /\ call.ret.x[i][0] = lo /\ call.ret.x[i][n - 1] = hi
                /\ call.ret.y[0][i] = hi /\ call.ret.y[n - 1][i] = lo
                /\ \A j \in Pixels : j > 0 =>
                      /\ RLt(call.ret.x[i][j - 1], call.ret.x[i][j])
                      /\ RLt(call.ret.y[j][i], call.ret.y[j - 1][i])

\* The orientation part alone, on grids of at least two pixels
C8_Orientation ==
    /\ (Built /\ call.name = "create_masked_image") =>
          \A Y \in Pixels : call.ret.a[Y] = self.data.a[self.npixels - 1 - Y]
    /\ (Built /\ call.name = "infer_coordinates" /\ self.npixels > 1) =>
          LET n  == self.npixels
              hi == RDiv(self.image_width_kpc, R(2, 1))
              lo == RMul(R(-1, 1), hi)
          IN  \A i \in Pixels :
                /\ call.ret.x[i][0] = lo /\ call.ret.x[i][n - 1] = hi
                /\ call.ret.y[0][i] = hi /\ call.ret.y[n - 1][i] = lo

InMask == self.mask.a
Everywhere == [Y \in Pixels |-> [X \in Pixels |-> TRUE]]

\* The tolerance of "approximately": a tenth of the total flux of the map
Tolerance == R(1, 10)

\* C9 as stated: the flux summed over the aperture's pixels is the same,
\* within the tolerance, before and after the convolution.
C9_MaskedFluxPreserved ==
    (Built /\ ~IsNone(self.fwhm_arcsec) /\ ~IsNone(self.aperture_radius)) =>
        LET before == SumWhere(self.raw.a, self.npixels, InMask) * self.data.den
            after  == SumWhere(self.data.a, self.npixels, InMask)
            total  == SumWhere(self.raw.a, self.npixels, Everywhere) * self.data.den
        IN  Abs(after - before) * Tolerance[2] <= Tolerance[1] * total

\* C9 as amended: the flux summed over every pixel of the grid is the same
\* before and after the convolution, for the map of the constructor and for
\* the array a later convolve_fwhm call returns.
C9_TotalFluxPreserved ==
    /\ (Built /\ ~IsNone(self.fwhm_arcsec)) =>
          SumWhere(self.data.a, self.npixels, Everywhere) * self.raw.den
              = SumWhere(self.raw.a, self.npixels, Everywhere) * self.data.den
    /\ (Built /\ call.name = "convolve_fwhm" /\ call.exc = "none") =>
          /\ call.ret.den = self.data.den * GaussSum(SigmaPixels) * GaussSum(SigmaPixels)
          /\ SumWhere(call.ret.a, self.npixels, Everywhere)
                = SumWhere(self.data.a, self.npixels, Everywhere)
                    * GaussSum(SigmaPixels) * GaussSum(SigmaPixels)

\* A convolved map whose blur moved flux across the aperture's edge
C9_FluxMoved ==
    /\ Built /\ ~IsNone(self.fwhm_arcsec) /\ ~IsNone(self.aperture_radius)
    /\ SumWhere(self.data.a, self.npixels, InMask)
          # SumWhere(self.raw.a, self.npixels, InMask) * self.data.den

\* C10: the filter selects exactly the particles whose projected position is
\* within the radius of the centre, with the pixel mask's treatment of the
\* circle itself; a centre that is not of length 2 raises ValueError.
C10_OneCircularRegion ==
    (Built /\ call.name = "Aperture") =>
        /\ (Len(call.cen) # 2) <=> (call.exc = "ValueError")
        /\ (call.exc = "none") =>
              call.ret = {p \in args.halo :
                            dist_le(p[1] - call.cen[1], p[2] - call.cen[2],
                                    call.filter.radius)}

\* C5: a run of the script on a snapshot with stars, gas and black holes
\* goes through every statement in order and ends with the figure written
\* exactly when an output path was given.
C5_ScriptRunsThrough ==
    (RunEnded /\ {"star", "gas", "bh"} \subseteq run.sim.families) =>
        /\ run.exc = "none"
        /\ run.done = Program
        /\ run.written <=> (run.argv.outfile # "None")

\* C6: with no 'bh' family and no 'tform' array, load_particles prints
\* 'Cannot find BH' and returns one entry per family, an existing 'bh' family
\* is kept as it is, and the run does not end in an error for the missing
\* black holes.
C6_MissingBHSkipped ==
    /\ (Len(run.done) >= 3 /\ "bh" \notin run.sim.families /\ ~run.sim.tform) =>
          /\ run.printed = <<"Cannot find BH">>
          /\ DOMAIN run.halo_families = run.sim.families
    /\ (Len(run.done) >= 3 /\ "bh" \in run.sim.families) =>
          /\ run.halo_families["bh"] = FamilyParticles("bh")
          /\ run.printed = <<>>
    /\ (RunEnded /\ "bh" \notin run.sim.families /\ ~run.sim.tform) =>
          ~(run.exc = "KeyError" /\ run.at \in {"star.bh_xy", "gas.bh_xy"})

\* C11: the particles kept by the constructor are the halo particles whose
\* three-dimensional distance from the origin is within halo_max_size,
\* halo_max_size being the constructor argument when given and aperture_kpc
\* when it is None: every kept particle is at a 3-d distance of at most
\* halo_max_size, and every particle strictly nearer than that is kept.
C11_Restricted3d ==
    Built =>
        LET size == IF IsNone(args.halo_max_size)
                    THEN args.aperture_kpc ELSE args.halo_max_size
            d2(p) == R(p[1] * p[1] + p[2] * p[2] + p[3] * p[3], 1)
        IN  /\ self.halo_max_size = size
            /\ \A p \in self.particles : RLe(d2(p), RMul(size, size))
            /\ \A p \in args.halo :
                  RLt(d2(p), RMul(size, size)) => p \in self.particles

\* A built map that kept a particle lying off the x-y plane, farther from the
\* origin than halo_max_size
C11_KeptOffPlane ==
    Built /\ \E p \in self.particles :
                 /\ p[3] # 0
                 /\ RLt(RMul(self.halo_max_size, self.halo_max_size),
                        R(p[1] * p[1] + p[2] * p[2] + p[3] * p[3], 1))

====
